---- MODULE Spec2Model ----
(***************************************************************************)
(* A model of the robust computing node of robust_node.py: one RobustNode  *)
(* with its two threads (_listen_loop and _process_loop), a caller thread  *)
(* that uses the public methods, and the datagrams the node sends.         *)
(* The threads share `alive`, `information` and `generation` without any   *)
(* lock, so the threads interleave between the statements that read or     *)
(* write the shared state; a step of the model is one such statement.      *)
(***************************************************************************)
EXTENDS Integers, Sequences, FiniteSets, TLC

\* ------------------------------------------------------------- bounds
\* Number of distinct non-empty info_ids the environment uses.
NumIds == 2
\* Largest energy carried by an injected item or an incoming message.
MaxEnergy == 2
\* Largest hop count carried by an incoming message.
MaxHops == 0
\* The tick loop is explored up to this many generation increments.
MaxGen == 2
\* The caller thread makes at most this many calls of the public methods.
MaxCalls == 1

\* ---------------------------------------------------- program constants
\* The 3x3 grid at base port 9100 of test_robust_network.py.
GridSize == 3
BasePort == 9100

\* The default of --base-port.
DefaultBasePort == 9000

\* The largest grid a node is started in.
MaxGrid == 4

\* The node under study: the corner node_0_0.
grid_x == 0
grid_y == 0

Digits == <<"0", "1", "2", "3", "4", "5", "6", "7", "8", "9">>

\* str(i) for the coordinates a node can be given.
Str(i) == IF i < 0 THEN "-" \o Digits[1 - i] ELSE Digits[i + 1]

\* f"node_{x}_{y}"
NodeName(x, y) == "node_" \o Str(x) \o "_" \o Str(y)

node_id == NodeName(grid_x, grid_y)

IdNames == <<"a", "b", "c", "d">>
Ids == {IdNames[i] : i \in 1..NumIds}
\* A message whose data carries no info_id, or an empty one: falsy in Python.
NoId == ""
Content == {"x"}
Senders == {"controller", NodeName(1, 0)}

\* ------------------------------------------------------------ messages
\* Message(type, sender_id, data, energy, hops), data flattened to the two
\* keys the node reads.
Msg(t, s, i, c, e, h) ==
    [type |-> t, sender_id |-> s, info_id |-> i, content |-> c, energy |-> e, hops |-> h]

InformationMsgs ==
    {Msg("information", s, i, c, e, h) :
        s \in Senders, i \in Ids \cup {NoId}, c \in Content,
        e \in 0..MaxEnergy, h \in 0..MaxHops}

\* ------------------------------------------------------------ topology
\* The (dx, dy) pairs in the order of the comprehension: dx outer, dy inner.
Offsets == [k \in 1..9 |-> <<((k - 1) \div 3) - 1, ((k - 1) % 3) - 1>>]

NotSelfOffset(o) == o[1] # 0 \/ o[2] # 0

neighbor_positions(x, y) ==
    LET offs == SelectSeq(Offsets, NotSelfOffset)
    IN  [k \in 1..Len(offs) |-> <<x + offs[k][1], y + offs[k][2]>>]

valid_neighbors(x, y, size) ==
    LET InGrid(p) == 0 <= p[1] /\ p[1] < size /\ 0 <= p[2] /\ p[2] < size
    IN  SelectSeq(neighbor_positions(x, y), InGrid)

\* A discovery that takes the port of the transposed cell.
DiscoverTransposed(x, y, size, base_port, self_id) ==
    LET valid == valid_neighbors(x, y, size)
        info == [k \in 1..Len(valid) |->
                    [node_id |-> NodeName(valid[k][1], valid[k][2]),
                     port |-> base_port + (valid[k][1] * size + valid[k][2]),
                     grid_x |-> valid[k][1],
                     grid_y |-> valid[k][2]]]
        NotSelf(n) == n.node_id # self_id
    IN  SelectSeq(info, NotSelf)

\* The neighbors dict, as the sequence of its values in insertion order.
discover_neighbors(x, y, size, base_port, self_id) ==
    LET valid == valid_neighbors(x, y, size)
        info == [k \in 1..Len(valid) |->
                    [node_id |-> NodeName(valid[k][1], valid[k][2]),
                     port |-> base_port + (valid[k][2] * size + valid[k][1]),
                     grid_x |-> valid[k][1],
                     grid_y |-> valid[k][2]]]
        NotSelf(n) == n.node_id # self_id
    IN  SelectSeq(info, NotSelf)

neighbors == discover_neighbors(grid_x, grid_y, GridSize, BasePort, node_id)

\* The nodes the launcher starts: one per grid position, y outer, x inner.
Nodes == {<<x, y>> : x \in 0..(GridSize - 1), y \in 0..(GridSize - 1)}

\* port = base_port + (y * grid_size + x)
PortOf(n) == BasePort + (n[2] * GridSize + n[1])

\* The node that is bound to port p.
NodeAt(p) == CHOOSE n \in Nodes : PortOf(n) = p

\* The neighbors of node n, as n's own discover_neighbors finds them.
NeighborsOf(n) == discover_neighbors(n[1], n[2], GridSize, BasePort, NodeName(n[1], n[2]))

Abs(i) == IF i < 0 THEN 0 - i ELSE i

\* The grid distance: the least number of hops between 8-connected positions.
Dist(a, b) ==
    LET dx == Abs(a[1] - b[1])
        dy == Abs(a[2] - b[2])
    IN  IF dx > dy THEN dx ELSE dy

\* --------------------------------------------------- information store
\* self.information is a dict: here the sequence of its entries in insertion
\* order, each entry carrying its key.
Has(info, id) == \E k \in 1..Len(info) : info[k].info_id = id

IndexOf(info, id) == CHOOSE k \in 1..Len(info) : info[k].info_id = id

Get(info, id) == info[IndexOf(info, id)]

\* d[key] = value: an existing key keeps its place, a new one goes last.
Put(info, item) ==
    IF Has(info, item.info_id)
    THEN [info EXCEPT ![IndexOf(info, item.info_id)] = item]
    ELSE Append(info, item)

\* del d[key]
Del(info, id) ==
    LET Other(it) == it.info_id # id
    IN  SelectSeq(info, Other)

KeysOf(info) == [k \in 1..Len(info) |-> info[k].info_id]

\* A handler that forgets the hop's cost: the energy is stored as received.
AcceptedItemNoCost(m) ==
    [info_id |-> m.info_id, content |-> m.content, energy |-> m.energy,
     received_from |-> m.sender_id, hops |-> m.hops + 1]

\* The item _handle_information stores for message m.
AcceptedItem(m) ==
    [info_id |-> m.info_id, content |-> m.content, energy |-> m.energy - 1,
     received_from |-> m.sender_id, hops |-> m.hops + 1]

\* A handler that lost the "not in self.information" test of line 163.
AcceptsHeld(info, m) ==
    /\ m.info_id # NoId
    /\ m.energy > 0

\* The condition of line 163.
Accepts(info, m) ==
    /\ m.info_id # NoId
    /\ ~Has(info, m.info_id)
    /\ m.energy > 0

\* Lines 162-170: the store after _handle_information got past the alive test.
StoreInformation(info, m) ==
    IF Accepts(info, m) THEN Put(info, AcceptedItem(m)) ELSE info

\* The item inject_information stores.
InjectedItem(id, c, e) ==
    [info_id |-> id, content |-> c, energy |-> e, received_from |-> "self", hops |-> 0]

\* A spread that sends the energy the item will have after this pass's decay.
SpreadMessageDecayed(item) ==
    Msg("information", node_id, item.info_id, item.content, item.energy - 1, item.hops)

\* The message _spread_information builds for one item.
SpreadMessage(item) ==
    Msg("information", node_id, item.info_id, item.content, item.energy, item.hops)

\* A decay that counts the tick twice.
DecrementEnergyTwice(info, id) ==
    [info EXCEPT ![IndexOf(info, id)].energy = @ - 2]

\* Line 216: self.information[info_id]["energy"] -= 1
DecrementEnergy(info, id) ==
    [info EXCEPT ![IndexOf(info, id)].energy = @ - 1]

\* Lines 216-221 for the keys ks[k..]: the body of the loop of
\* _decay_information, run with no other thread in between.
RECURSIVE DecayKeys(_, _, _)
DecayKeys(info, ks, k) ==
    IF k > Len(ks)
    THEN info
    ELSE LET dec == DecrementEnergy(info, ks[k])
         IN  DecayKeys(IF Get(dec, ks[k]).energy <= 0 THEN Del(dec, ks[k]) ELSE dec,
                       ks, k + 1)

\* A tick pass whose decay does nothing.
DecayNothing(info) == info

\* Lines 213-221: the store after one uninterrupted _decay_information.
decay_information(info) == DecayKeys(info, KeysOf(info), 1)

\* ----------------------------------------------------------- datagrams
\* The bytes recvfrom returns, by what lines 108-109 and the handlers make of
\* them: bytes json.loads refuses, a JSON value that is no object, or a JSON
\* object, whose keys are the fields of Message (energy and hops may be
\* absent, they default to 0), lack a required one, or hold an unknown one.
JsonKinds == {"invalid", "array", "object"}
KeyKinds == {"fields", "missing", "unknown"}
Types == {"ping", "information", "heartbeat", "die", "bogus"}

\* dict.get of an absent key gives None.
NoContent == "None"

\* The value of "data": something that is no dict, or a dict with or without
\* the keys info_id and content.
DataValues ==
    {[dict |-> FALSE, info_id |-> NoId, content |-> NoContent]}
    \cup {[dict |-> TRUE, info_id |-> i, content |-> c] :
             i \in {"a", NoId}, c \in Content \cup {NoContent}}

\* The value of "energy": a number, or a string.
EnergyValues ==
    {[num |-> TRUE, val |-> e] : e \in 0..1} \cup {[num |-> FALSE, val |-> 0]}

Garbage(j) ==
    [json |-> j, keys |-> "missing", type |-> "bogus", sender_id |-> "tester",
     data |-> [dict |-> FALSE, info_id |-> NoId, content |-> NoContent],
     energy |-> [num |-> TRUE, val |-> 0]]

Datagrams ==
    {Garbage(j) : j \in JsonKinds \ {"object"}}
    \cup {[json |-> "object", keys |-> k, type |-> t, sender_id |-> "tester",
            data |-> d, energy |-> e] :
             k \in KeyKinds, t \in Types, d \in DataValues, e \in EnergyValues}

NoDatagram == Garbage("invalid")

\* Lines 108-109: json.loads and Message(**message_dict) raise nothing.
Decodes(raw) == raw.json = "object" /\ raw.keys = "fields"

\* The message of a datagram that decodes, data flattened as in Msg.
DecodedMsg(raw) ==
    [type |-> raw.type, sender_id |-> raw.sender_id, info_id |-> raw.data.info_id,
     content |-> raw.data.content, energy |-> raw.energy.val, hops |-> 0]

\* _handle_information raises: data has no get (line 162), or the energy is
\* compared with 0 (line 163, reached for an id that is new) and is no number.
InformationRaises(info, raw) ==
    \/ ~raw.data.dict
    \/ /\ raw.data.info_id # NoId
       /\ ~Has(info, raw.data.info_id)
       /\ ~raw.energy.num

\* The datagram changed nothing and was not answered.
Dropped(a, info) == [alive |-> a, information |-> info, reply |-> FALSE]

\* A listen loop that answers whatever decodes.
AnswersAll(a, info, raw) == [alive |-> a, information |-> info, reply |-> Decodes(raw)]

\* Lines 107-114 and the handler that line 110 calls, for the datagram raw on
\* a node whose alive flag is a and whose store is info: the flag and the
\* store afterwards, and whether a pong was sent. Whatever is raised is
\* caught at line 113.
listen_once(a, info, raw) ==
    IF ~Decodes(raw) THEN Dropped(a, info)
    ELSE CASE raw.type = "ping" -> [alive |-> a, information |-> info, reply |-> TRUE]
           [] raw.type = "information" ->
                IF ~a \/ InformationRaises(info, raw)
                THEN Dropped(a, info)
                ELSE [alive |-> a,
                      information |-> StoreInformation(info, DecodedMsg(raw)),
                      reply |-> FALSE]
           [] raw.type = "die" -> [alive |-> FALSE, information |-> <<>>, reply |-> FALSE]
           [] OTHER -> Dropped(a, info)

\* ---------------------------------------------------------------- wire
\* recvfrom(1024), line 107.
RecvBuffer == 1024

\* The bytes of json.dumps(asdict(message)) around the payload: the five
\* field names, the type, the sender id and the numbers; and per key of data.
EnvelopeBytes == 90
KeyBytes == 10

\* The length of a long content.
LongContent == 1000

Variants == {"ping", "pong", "information", "heartbeat", "die"}

\* The keys of a Python dict: a str, or an int (the info_id a JSON number
\* gave, line 162, is the key of the store and of the pong's item map).
PyKeys == {[kind |-> "str", val |-> "a"], [kind |-> "int", val |-> "1"]}

\* Message.data: a dict, by its keys and the characters of its contents.
PyData == {[keys |-> ks, chars |-> n] : ks \in SUBSET PyKeys, n \in {0, LongContent}}

\* The Message objects a sender builds.
Messages ==
    {[type |-> t, sender_id |-> node_id, data |-> d, energy |-> e, hops |-> h] :
        t \in Variants, d \in PyData, e \in 0..1, h \in 0..1}

MessageFields == {"type", "sender_id", "data", "energy", "hops"}

\* json.dumps writes every key of a dict as a string: str(1) for the int 1.
JsonKey(k) == [kind |-> "str", val |-> k.val]

\* Line 228: json.dumps(asdict(message)).encode(), the JSON object with the
\* fields it holds and the number of its bytes.
json_dumps(m) ==
    [fields |-> MessageFields, type |-> m.type, sender_id |-> m.sender_id,
     data |-> [keys |-> {JsonKey(k) : k \in m.data.keys}, chars |-> m.data.chars],
     energy |-> m.energy, hops |-> m.hops,
     size |-> EnvelopeBytes + KeyBytes * Cardinality(m.data.keys) + m.data.chars,
     whole |-> TRUE]

\* Line 107: recvfrom(1024) returns the first 1024 bytes of the datagram.
recvfrom(w) == IF w.size <= RecvBuffer THEN w ELSE [w EXCEPT !.size = RecvBuffer, !.whole = FALSE]

\* Nothing decoded.
NoMessage ==
    [type |-> "none", sender_id |-> "", data |-> [keys |-> {}, chars |-> 0],
     energy |-> 0, hops |-> 0]

\* Lines 108-109: json.loads raises on bytes that are cut; Message(**dict)
\* raises on a missing type, sender_id or data, and takes 0 for an absent
\* energy or hops (lines 23-24).
decode(w) ==
    IF w.whole /\ {"type", "sender_id", "data"} \subseteq w.fields
    THEN [ok |-> TRUE,
          msg |-> [type |-> w.type, sender_id |-> w.sender_id, data |-> w.data,
                   energy |-> IF "energy" \in w.fields THEN w.energy ELSE 0,
                   hops |-> IF "hops" \in w.fields THEN w.hops ELSE 0]]
    ELSE [ok |-> FALSE, msg |-> NoMessage]

\* The datagrams of another sender: a message written without some of the
\* fields that have a default.
Omitting(m, fs) == [json_dumps(m) EXCEPT !.fields = MessageFields \ fs]

NoWire == Omitting(NoMessage, MessageFields)

VARIABLES
    alive,          \* self.alive
    information,    \* self.information
    generation,     \* self.generation
    tpc,            \* where _process_loop is
    snap,           \* _spread_information: list(self.information.items())
    si,             \* _spread_information: index of the current item
    ni,             \* _spread_information: index of the current neighbor
    dkeys,          \* _decay_information: list(self.information.keys())
    di,             \* _decay_information: index of the current key
    lpc,            \* where _listen_loop is
    pong,           \* _handle_ping: the response under construction
    psize,          \* _handle_ping: the dict size the items iterator started with
    ppos,           \* _handle_ping: the position of the items iterator
    apc,            \* where the thread calling the public methods is
    calls,          \* the calls of public methods made so far
    sent,           \* output: the datagrams sent by the current spread, in order
    ddone,          \* history: the keys the current decay pass has decremented
    fresh,          \* history: accepted items neither spread in full nor decayed yet
    dieHandled,     \* history: a die datagram was handled and no revive followed
    life,           \* history: per info_id, the energy it was injected with and
                    \*          the tick passes that consumed energy of it since
    seed,           \* history: the store the node was started with
    nalive,         \* network: each node's alive flag
    nstore,         \* network: each node's information store
    nphase,         \* network: where each node's tick pass is
    inbox,          \* network: the datagrams queued at each node's socket
    origin,         \* network: the node the controller injected at
    injected,       \* network: the energy the controller injected with
    held,           \* network history: the nodes that have accepted the item
    running,        \* self.running
    sockopen,       \* self.socket is open
    tried,          \* history: the _send_to_node calls of the current spread,
                    \*          each an info_id and a port
    dgram,          \* history: the datagram recvfrom returned last
    reply,          \* output: the handling of that datagram sent a reply
    conf,           \* the arguments main was started with
    stage,          \* where main is
    nbrs,           \* self.neighbors, as discover_neighbors filled it
    wmsg,           \* wire: the message a sender built
    wire,           \* wire: the datagram in flight
    decoded,        \* wire: what the receiver decoded
    wpc             \* wire: where the datagram is

tickVars == <<tpc, snap, si, ni, dkeys, di, sent, ddone>>
pingVars == <<pong, psize, ppos>>
listenVars == <<lpc, pong, psize, ppos>>
apcVars == <<apc, calls>>
\* What only some of the specifications let change.
netVars == <<nalive, nstore, nphase, inbox, origin, injected, held>>
stopVars == <<running, sockopen>>
recvVars == <<dgram, reply>>
startVars == <<conf, stage, nbrs>>
wireVars == <<wmsg, wire, decoded, wpc>>
extVars == <<seed, netVars, stopVars, tried, recvVars, startVars, wireVars>>

vars == <<alive, information, generation, tpc, snap, si, ni, dkeys, di, lpc,
          pong, psize, ppos, apc, calls, sent, ddone, fresh, dieHandled, life,
          extVars>>

\* No datagram, no response under construction.
None == [type |-> "none"]

Untracked == [E |-> 0, n |-> 0]

\* A started network into which nothing was injected.
NetQuiet ==
    /\ nalive = [n \in Nodes |-> TRUE]
    /\ nstore = [n \in Nodes |-> <<>>]
    /\ nphase = [n \in Nodes |-> "sleep"]
    /\ inbox = [n \in Nodes |-> <<>>]
    /\ origin = <<0, 0>>
    /\ injected = 0
    /\ held = {}

\* No datagram of the wire is under way.
Unsent ==
    /\ wmsg = NoMessage
    /\ wire = NoWire
    /\ decoded = [ok |-> FALSE, msg |-> NoMessage]
    /\ wpc = "idle"

\* The arguments the test harness starts node_0_0 with.
TestConf ==
    [id |-> node_id, port |-> BasePort + (grid_y * GridSize + grid_x),
     x |-> grid_x, y |-> grid_y, size |-> GridSize, base |-> BasePort]

\* Lines 50-55 and main: the socket is bound, running is set, the neighbors
\* are discovered and the threads started; nothing was received.
Started ==
    /\ running = TRUE
    /\ sockopen = TRUE
    /\ tried = <<>>
    /\ dgram = NoDatagram
    /\ reply = FALSE
    /\ conf = TestConf
    /\ stage = "started"
    /\ nbrs = neighbors
    /\ Unsent

Init ==
    /\ Started
    /\ alive = TRUE
    /\ information = <<>>
    /\ generation = 0
    /\ tpc = "sleep"
    /\ snap = <<>>
    /\ si = 1
    /\ ni = 1
    /\ dkeys = <<>>
    /\ di = 1
    /\ lpc = "idle"
    /\ pong = None
    /\ psize = 0
    /\ ppos = 1
    /\ apc = "idle"
    /\ calls = 0
    /\ sent = <<>>
    /\ ddone = <<>>
    /\ fresh = {}
    /\ dieHandled = FALSE
    /\ life = [i \in Ids |-> Untracked]
    /\ seed = <<>>
    /\ NetQuiet

\* ------------------------------------------------------ _process_loop
\* Lines 185-186: while self.running, if self.alive. A dead node sleeps and
\* tests again.
ProcessLoopTest ==
    /\ tpc = "sleep"
    /\ running
    /\ generation < MaxGen
    /\ tpc' = IF alive THEN "spread_snap" ELSE "sleep"
    /\ sent' = <<>>
    /\ tried' = <<>>
    /\ UNCHANGED <<seed, netVars, stopVars, recvVars, startVars, wireVars, alive, information, generation, snap, si, ni, dkeys, di, ddone,
                   listenVars, apcVars, fresh, dieHandled, life>>

\* Where the spread loop stands after it is done with item k of s.
AfterItem(s, k) == IF k >= Len(s) THEN "decay_snap" ELSE "spread"

\* Line 195: the loop starts on a copy of the items.
SpreadSnapshot ==
    /\ tpc = "spread_snap"
    /\ snap' = information
    /\ si' = 1
    /\ ni' = 1
    /\ tpc' = IF Len(information) = 0 THEN "decay_snap" ELSE "spread"
    /\ UNCHANGED <<extVars, alive, information, generation, dkeys, di, sent, ddone,
                   listenVars, apcVars, fresh, dieHandled, life>>

\* The accepted items still waiting for their first spread, once item it has
\* gone to every neighbor as it is stored.
FreshAfterSpread(fr, info, it) ==
    IF Has(info, it.info_id) /\ Get(info, it.info_id) = it
    THEN fr \ {it.info_id}
    ELSE fr

\* A _send_to_node without its try: the error of sendto ends the thread.
SendRaises(ok, next) == IF ok THEN next ELSE "crashed"

\* Lines 227-232: where the tick thread is after a _send_to_node whose sendto
\* succeeded (ok) or raised: the error is caught and passed over.
AfterSend(ok, next) == next

\* Lines 228-229: the datagrams that went out, after a sendto of datagram d.
SendOutcome(ok, out, d) == IF ok THEN Append(out, d) ELSE out

\* Lines 196-211, one _send_to_node call; sendto succeeds only on an open
\* socket.
Send(ok) ==
    /\ tpc = "spread"
    /\ snap[si].energy > 0
    /\ Len(neighbors) > 0
    /\ ok => sockopen
    /\ sent' = SendOutcome(ok, sent,
                           [to |-> neighbors[ni].port, msg |-> SpreadMessage(snap[si])])
    /\ tried' = Append(tried, <<snap[si].info_id, neighbors[ni].port>>)
    /\ IF ni < Len(neighbors)
       THEN /\ ni' = ni + 1
            /\ tpc' = AfterSend(ok, tpc)
            /\ UNCHANGED <<si, fresh>>
       ELSE /\ ni' = 1
            /\ si' = si + 1
            /\ tpc' = AfterSend(ok, AfterItem(snap, si))
            /\ fresh' = FreshAfterSpread(fresh, information, snap[si])
    /\ UNCHANGED <<seed, netVars, stopVars, recvVars, startVars, wireVars, alive, information, generation, snap, dkeys, di, ddone,
                   listenVars, apcVars, dieHandled, life>>

SpreadSend == Send(TRUE)

\* Lines 230-232: sendto raised (the socket is closed, the network is down).
SpreadSendFailed == Send(FALSE)

\* Line 196 is false (or there is no neighbor): the item is skipped.
SpreadSkip ==
    /\ tpc = "spread"
    /\ (snap[si].energy <= 0 \/ Len(neighbors) = 0)
    /\ si' = si + 1
    /\ tpc' = AfterItem(snap, si)
    /\ UNCHANGED <<extVars, alive, information, generation, snap, ni, dkeys, di, sent, ddone,
                   listenVars, apcVars, fresh, dieHandled, life>>

\* Where the decay loop stands after it is done with key k of ks.
AfterKey(ks, k) == IF k >= Len(ks) THEN "gen" ELSE "decay_dec"

\* Line 215: the loop starts on a copy of the keys.
DecaySnapshot ==
    /\ tpc = "decay_snap"
    /\ dkeys' = KeysOf(information)
    /\ di' = 1
    /\ ddone' = <<>>
    /\ snap' = <<>>
    /\ si' = 1
    /\ ni' = 1
    /\ sent' = <<>>
    /\ tried' = <<>>
    /\ tpc' = IF Len(information) = 0 THEN "gen" ELSE "decay_dec"
    /\ UNCHANGED <<seed, netVars, stopVars, recvVars, startVars, wireVars, alive, information, generation, listenVars, apcVars, fresh,
                   dieHandled, life>>

\* One more tick pass has consumed energy of item id, if it is tracked.
LifeAfterDecay(lf, id) ==
    IF lf[id].E > 0 THEN [lf EXCEPT ![id].n = @ + 1] ELSE lf

\* Line 216. A key that is gone raises KeyError, which ends the thread.
DecayDecrement ==
    /\ tpc = "decay_dec"
    /\ IF Has(information, dkeys[di])
       THEN /\ information' = DecrementEnergy(information, dkeys[di])
            /\ ddone' = Append(ddone, dkeys[di])
            /\ fresh' = fresh \ {dkeys[di]}
            /\ life' = LifeAfterDecay(life, dkeys[di])
            /\ tpc' = "decay_test"
       ELSE /\ tpc' = "crashed"
            /\ UNCHANGED <<information, ddone, fresh, life>>
    /\ UNCHANGED <<extVars, alive, generation, snap, si, ni, dkeys, di, sent,
                   listenVars, apcVars, dieHandled>>

\* Line 219.
DecayTest ==
    /\ tpc = "decay_test"
    /\ IF Has(information, dkeys[di])
       THEN IF Get(information, dkeys[di]).energy <= 0
            THEN /\ tpc' = "decay_del"
                 /\ UNCHANGED di
            ELSE /\ tpc' = AfterKey(dkeys, di)
                 /\ di' = di + 1
       ELSE /\ tpc' = "crashed"
            /\ UNCHANGED di
    /\ UNCHANGED <<extVars, alive, information, generation, snap, si, ni, dkeys, sent, ddone,
                   listenVars, apcVars, fresh, dieHandled, life>>

\* Line 221.
DecayDelete ==
    /\ tpc = "decay_del"
    /\ IF Has(information, dkeys[di])
       THEN /\ information' = Del(information, dkeys[di])
            /\ fresh' = fresh \ {dkeys[di]}
            /\ tpc' = AfterKey(dkeys, di)
            /\ di' = di + 1
       ELSE /\ tpc' = "crashed"
            /\ UNCHANGED <<information, di, fresh>>
    /\ UNCHANGED <<extVars, alive, generation, snap, si, ni, dkeys, sent, ddone,
                   listenVars, apcVars, dieHandled, life>>

\* Line 190, then the sleep of line 191.
IncrementGeneration ==
    /\ tpc = "gen"
    /\ generation' = generation + 1
    /\ tpc' = "sleep"
    /\ dkeys' = <<>>
    /\ di' = 1
    /\ ddone' = <<>>
    /\ UNCHANGED <<extVars, alive, information, snap, si, ni, sent,
                   listenVars, apcVars, fresh, dieHandled, life>>

\* A handler without the alive test of line 159.
HandleWhenDead(a, info, m) == StoreInformation(info, m)

\* ------------------------------------------------------- _listen_loop
\* Lines 157-171: the store after _handle_information(m) ran from its first
\* line to its last on a node whose alive flag is a and whose store is info.
handle_information(a, info, m) ==
    IF ~a THEN info ELSE StoreInformation(info, m)

\* The launcher and the test harness inject as "controller".
LifeAfterAccept(lf, info, m) ==
    IF Accepts(info, m) /\ m.sender_id = "controller"
    THEN [lf EXCEPT ![m.info_id] = [E |-> m.energy, n |-> 0]]
    ELSE lf

\* An information datagram, line 159: a dead node returns.
HandleInformationTest ==
    /\ lpc = "idle"
    /\ running
    /\ lpc' = IF alive THEN "info_store" ELSE "idle"
    /\ UNCHANGED <<extVars, alive, information, generation, tickVars, pingVars, apcVars,
                   fresh, dieHandled, life>>

\* Lines 162-170 for the datagram m that was received (m is local to the
\* thread, so it is drawn here, where it is first read).
HandleInformationStore(m) ==
    /\ lpc = "info_store"
    /\ information' = StoreInformation(information, m)
    /\ fresh' = IF Accepts(information, m) THEN fresh \cup {m.info_id} ELSE fresh
    /\ life' = LifeAfterAccept(life, information, m)
    /\ lpc' = "idle"
    /\ UNCHANGED <<extVars, alive, generation, tickVars, pingVars, apcVars, dieHandled>>

\* A heartbeat datagram: line 175.
HandleHeartbeat ==
    /\ lpc = "idle"
    /\ running
    /\ UNCHANGED vars

\* A die datagram: line 180.
HandleDie ==
    /\ lpc = "idle"
    /\ running
    /\ alive' = FALSE
    /\ lpc' = "die_clear"
    /\ life' = [i \in Ids |-> Untracked]
    /\ UNCHANGED <<extVars, information, generation, tickVars, pong, psize, ppos, apcVars,
                   fresh, dieHandled>>

\* Line 182.
HandleDieClear ==
    /\ lpc = "die_clear"
    /\ information' = <<>>
    /\ lpc' = "idle"
    /\ fresh' = {}
    /\ dieHandled' = TRUE
    /\ UNCHANGED <<extVars, alive, generation, tickVars, pingVars, apcVars, life>>

\* The response of lines 130-148 with nothing read yet but the alive flag and
\* the item count.
PongStart(addr, a, info) ==
    [type |-> "pong", to |-> addr, sender_id |-> node_id, alive |-> a,
     grid_x |-> grid_x, grid_y |-> grid_y, information_count |-> Len(info),
     information |-> <<>>, generation |-> 0, neighbors |-> Len(neighbors)]

\* A ping datagram from addr: lines 134 and 137.
HandlePing(addr) ==
    /\ lpc = "idle"
    /\ running
    /\ pong' = PongStart(addr, alive, information)
    /\ lpc' = "ping_iter"
    /\ UNCHANGED <<extVars, alive, information, generation, tickVars, psize, ppos, apcVars,
                   fresh, dieHandled, life>>

\* Line 143: self.information.items() starts to be iterated.
PingIter ==
    /\ lpc = "ping_iter"
    /\ psize' = Len(information)
    /\ ppos' = 1
    /\ lpc' = "ping_next"
    /\ UNCHANGED <<extVars, alive, information, generation, tickVars, pong, apcVars,
                   fresh, dieHandled, life>>

\* The entry of the response for one item: lines 139-142.
PongEntry(item) ==
    [info_id |-> item.info_id, energy |-> item.energy, hops |-> item.hops]

\* Lines 139-143, one step of the iteration. A dict whose size changed since
\* the iteration started raises RuntimeError, which _listen_loop catches at
\* line 113: no response is sent. When the items are exhausted the generation
\* is read and the response is sent (lines 145-153).
PingNext ==
    /\ lpc = "ping_next"
    /\ IF Len(information) # psize
       THEN /\ lpc' = "ping_failed"
            /\ pong' = None
            /\ psize' = 0
            /\ ppos' = 1
       ELSE IF ppos > Len(information)
            THEN /\ lpc' = "ping_sent"
                 /\ pong' = [pong EXCEPT !.generation = generation]
                 /\ psize' = 0
                 /\ ppos' = 1
            ELSE /\ pong' = [pong EXCEPT !.information =
                                Append(@, PongEntry(information[ppos]))]
                 /\ ppos' = ppos + 1
                 /\ UNCHANGED <<lpc, psize>>
    /\ UNCHANGED <<extVars, alive, information, generation, tickVars, apcVars,
                   fresh, dieHandled, life>>

\* The handler is left and _listen_loop receives again: after the sendto of
\* line 153 (pong is the datagram sent), or after the except of line 113.
PingReturn ==
    /\ lpc \in {"ping_sent", "ping_failed"}
    /\ lpc' = "idle"
    /\ pong' = None
    /\ UNCHANGED <<extVars, alive, information, generation, tickVars, psize, ppos, apcVars,
                   fresh, dieHandled, life>>

\* ----------------------------------------------- the public methods
\* inject_information, line 236: if self.alive.
InjectTest ==
    /\ apc = "idle"
    /\ calls < MaxCalls
    /\ calls' = calls + 1
    /\ apc' = IF alive THEN "inject_store" ELSE "idle"
    /\ UNCHANGED <<extVars, alive, information, generation, tickVars, listenVars,
                   fresh, dieHandled, life>>

\* inject_information, lines 237-242.
InjectStore(id, c, e) ==
    /\ apc = "inject_store"
    /\ information' = Put(information, InjectedItem(id, c, e))
    /\ apc' = "idle"
    /\ fresh' = fresh \ {id}
    /\ life' = [life EXCEPT ![id] = [E |-> e, n |-> 0]]
    /\ UNCHANGED <<extVars, alive, generation, tickVars, listenVars, calls, dieHandled>>

\* simulate_failure, line 266.
SimulateFailure ==
    /\ apc = "idle"
    /\ calls < MaxCalls
    /\ calls' = calls + 1
    /\ alive' = FALSE
    /\ apc' = "fail_clear"
    /\ life' = [i \in Ids |-> Untracked]
    /\ UNCHANGED <<extVars, information, generation, tickVars, listenVars, fresh, dieHandled>>

\* simulate_failure, line 267.
SimulateFailureClear ==
    /\ apc = "fail_clear"
    /\ information' = <<>>
    /\ apc' = "idle"
    /\ fresh' = {}
    /\ UNCHANGED <<extVars, alive, generation, tickVars, listenVars, calls, dieHandled, life>>

\* revive, line 272.
Revive ==
    /\ apc = "idle"
    /\ calls < MaxCalls
    /\ calls' = calls + 1
    /\ alive' = TRUE
    /\ dieHandled' = FALSE
    /\ UNCHANGED <<extVars, information, generation, tickVars, listenVars, apc, fresh, life>>

\* The addresses ping datagrams come from.
PingAddrs == {"monitor", "tester"}

TickNext ==
    \/ ProcessLoopTest
    \/ SpreadSnapshot
    \/ SpreadSend
    \/ SpreadSkip
    \/ DecaySnapshot
    \/ DecayDecrement
    \/ DecayTest
    \/ DecayDelete
    \/ IncrementGeneration

ListenNext ==
    \/ HandleInformationTest
    \/ \E m \in InformationMsgs : HandleInformationStore(m)
    \/ HandleHeartbeat
    \/ HandleDie
    \/ HandleDieClear

PingNext_ ==
    \/ \E addr \in PingAddrs : HandlePing(addr)
    \/ PingIter
    \/ PingNext
    \/ PingReturn

CallerNext ==
    \/ InjectTest
    \/ \E id \in Ids, c \in Content, e \in 1..MaxEnergy : InjectStore(id, c, e)
    \/ SimulateFailure
    \/ SimulateFailureClear
    \/ Revive

\* shutdown, line 277.
Shutdown ==
    /\ running
    /\ running' = FALSE
    /\ UNCHANGED <<seed, netVars, sockopen, tried, recvVars, startVars, wireVars, alive, information, generation,
                   tickVars, listenVars, apcVars, fresh, dieHandled, life>>

\* shutdown, line 278: the socket is closed right after, no thread is joined.
SocketClose ==
    /\ ~running
    /\ sockopen
    /\ sockopen' = FALSE
    /\ UNCHANGED <<seed, netVars, running, tried, recvVars, startVars, wireVars, alive, information, generation,
                   tickVars, listenVars, apcVars, fresh, dieHandled, life>>

\* Line 185 is false after the sleep: _process_loop returns.
ProcessLoopExit ==
    /\ tpc = "sleep"
    /\ ~running
    /\ tpc' = "done"
    /\ UNCHANGED <<extVars, alive, information, generation, snap, si, ni, dkeys, di,
                   sent, ddone, listenVars, apcVars, fresh, dieHandled, life>>

\* Line 105 is false after a timeout or an error of recvfrom: _listen_loop
\* returns.
ListenLoopExit ==
    /\ lpc = "idle"
    /\ ~running
    /\ lpc' = "done"
    /\ UNCHANGED <<extVars, alive, information, generation, tickVars, pingVars,
                   apcVars, fresh, dieHandled, life>>

StopNext ==
    \/ Shutdown
    \/ SocketClose
    \/ ProcessLoopExit
    \/ ListenLoopExit

\* One turn of the loop of _listen_loop on the datagram raw.
Receive(raw) ==
    /\ lpc = "idle"
    /\ running
    /\ dgram' = raw
    /\ alive' = listen_once(alive, information, raw).alive
    /\ information' = listen_once(alive, information, raw).information
    /\ reply' = listen_once(alive, information, raw).reply
    /\ UNCHANGED <<seed, netVars, stopVars, tried, startVars, wireVars, generation, tickVars,
                   listenVars,
                   apcVars, fresh, dieHandled, life>>

\* The items a store can hold: accepted from a message, or injected.
StoredItems ==
    {AcceptedItem(m) : m \in {x \in InformationMsgs : x.info_id # NoId /\ x.energy > 0}}
    \cup {InjectedItem(id, c, e) : id \in Ids, c \in Content, e \in 1..MaxEnergy}

\* The stores of at most NumIds items, one per info_id.
Stores ==
    {st \in UNION {[1..n -> StoredItems] : n \in 0..NumIds} :
        \A j, k \in 1..Len(st) : j # k => st[j].info_id # st[k].info_id}

\* The fields of a node whose tick thread wakes up on the store st, the other
\* threads idle.
NodeFields(st) ==
    /\ alive = TRUE
    /\ information = st
    /\ generation = 0
    /\ tpc = "sleep"
    /\ snap = <<>>
    /\ si = 1
    /\ ni = 1
    /\ dkeys = <<>>
    /\ di = 1
    /\ lpc = "idle"
    /\ pong = None
    /\ psize = 0
    /\ ppos = 1
    /\ apc = "idle"
    /\ calls = 0
    /\ sent = <<>>
    /\ ddone = <<>>
    /\ fresh = {}
    /\ dieHandled = FALSE
    /\ life = [i \in Ids |-> Untracked]
    /\ seed = st

NodeStart(st) == Started /\ NodeFields(st)

\* NetworkController.nodes_info for a grid of the given size at the given base
\* port (the test harness starts the same nodes): the entries, each with its
\* key.
nodes_info(size, base) ==
    {[node_id |-> NodeName(x, y), port |-> base + (y * size + x), grid_x |-> x, grid_y |-> y] :
        x \in 0..(size - 1), y \in 0..(size - 1)}

\* The arguments start_network starts the node of entry i with.
LaunchedConf(i, size, base) ==
    [id |-> i.node_id, port |-> i.port, x |-> i.grid_x, y |-> i.grid_y,
     size |-> size, base |-> base]

\* The coordinates --grid-x and --grid-y are given: any integer parses.
Coordinates == (0 - 1)..MaxGrid

\* The arguments of main, lines 281-289: no argument is checked against
\* another. The id is the name of the node's cell, the name of the cell to
\* its east, or the name of no cell; the port is the cell's or the next.
GivenName(k, x, y) ==
    CASE k = "cell" -> NodeName(x, y)
      [] k = "east" -> NodeName(x + 1, y)
      [] OTHER -> "node"

Configs ==
    {[id |-> GivenName(k, x, y), port |-> b + (y * g + x) + d, x |-> x, y |-> y, size |-> g, base |-> b] :
        x \in Coordinates, y \in Coordinates, g \in 1..MaxGrid,
        b \in {DefaultBasePort, BasePort}, d \in {0, 1},
        k \in {"cell", "east", "none"}}

\* main with its arguments parsed, line 289.
InitStart ==
    /\ NodeFields(<<>>)
    /\ NetQuiet
    /\ running = FALSE
    /\ sockopen = FALSE
    /\ tried = <<>>
    /\ dgram = NoDatagram
    /\ reply = FALSE
    /\ conf \in Configs
    /\ stage = "args"
    /\ nbrs = <<>>
    /\ Unsent

\* Line 292, RobustNode.__init__: the fields are set, the socket is bound to
\* the port given (lines 50-52), running is set (line 55).
Construct ==
    /\ stage = "args"
    /\ sockopen' = TRUE
    /\ running' = TRUE
    /\ stage' = "constructed"
    /\ UNCHANGED <<seed, netVars, tried, recvVars, wireVars, conf, nbrs, alive, information,
                   generation, tickVars, listenVars, apcVars, fresh, dieHandled, life>>

\* Line 293: node.discover_neighbors(args.base_port).
Discover ==
    /\ stage = "constructed"
    /\ nbrs' = discover_neighbors(conf.x, conf.y, conf.size, conf.base, conf.id)
    /\ stage' = "discovered"
    /\ UNCHANGED <<seed, netVars, stopVars, tried, recvVars, wireVars, conf, alive, information,
                   generation, tickVars, listenVars, apcVars, fresh, dieHandled, life>>

\* Line 294: node.start().
StartThreads ==
    /\ stage = "discovered"
    /\ stage' = "started"
    /\ UNCHANGED <<seed, netVars, stopVars, tried, recvVars, wireVars, conf, nbrs, alive, information,
                   generation, tickVars, listenVars, apcVars, fresh, dieHandled, life>>

NextStart ==
    \/ Construct
    \/ Discover
    \/ StartThreads

SpecStart == InitStart /\ [][NextStart]_vars

\* A started node and a datagram for it: a message a node is about to send,
\* or the datagram of another sender, without some fields.
InitWire ==
    /\ NodeFields(<<>>)
    /\ NetQuiet
    /\ running = TRUE
    /\ sockopen = TRUE
    /\ tried = <<>>
    /\ dgram = NoDatagram
    /\ reply = FALSE
    /\ conf = TestConf
    /\ stage = "started"
    /\ nbrs = neighbors
    /\ wmsg \in Messages
    /\ decoded = [ok |-> FALSE, msg |-> NoMessage]
    /\ \/ wire = NoWire /\ wpc = "built"
       \/ \E fs \in (SUBSET {"energy", "hops"}) \ {{}} : wire = Omitting(wmsg, fs) /\ wpc = "sent"

\* Lines 228-229: the message is encoded and sent.
WireSend ==
    /\ wpc = "built"
    /\ wire' = json_dumps(wmsg)
    /\ wpc' = "sent"
    /\ UNCHANGED <<seed, netVars, stopVars, tried, recvVars, startVars, wmsg, decoded, alive,
                   information, generation, tickVars, listenVars, apcVars, fresh,
                   dieHandled, life>>

\* Lines 107-109: the datagram is received and decoded.
WireReceive ==
    /\ wpc = "sent"
    /\ decoded' = decode(recvfrom(wire))
    /\ wpc' = "received"
    /\ UNCHANGED <<seed, netVars, stopVars, tried, recvVars, startVars, wmsg, wire, alive,
                   information, generation, tickVars, listenVars, apcVars, fresh,
                   dieHandled, life>>

NextWire == WireSend \/ WireReceive

SpecWire == InitWire /\ [][NextWire]_vars

InitWithStore(st) == NodeStart(st) /\ NetQuiet

InitD == \E st \in Stores : InitWithStore(st)

Next == TickNext \/ ListenNext \/ CallerNext
\* The tick thread alone.
NextD == TickNext
NextP == TickNext \/ ListenNext \/ PingNext_

Spec == Init /\ [][Next]_vars
SpecP == Init /\ [][NextP]_vars
SpecD == InitD /\ [][NextD]_vars

\* A node that receives information datagrams, whose sends may fail, and that
\* is shut down at any moment.
NextS ==
    \/ TickNext
    \/ SpreadSendFailed
    \/ HandleInformationTest
    \/ \E m \in InformationMsgs : HandleInformationStore(m)
    \/ StopNext

SpecS == Init /\ [][NextS]_vars

\* The listen thread on any datagram, the node revived by its owner.
NextR ==
    \/ \E raw \in Datagrams : Receive(raw)
    \/ Revive

SpecR == Init /\ [][NextR]_vars

\* The tick thread alone on a given store, with sends that may fail.
NextF == TickNext \/ SpreadSendFailed

SpecF == InitD /\ [][NextF]_vars

\* ------------------------------------------------------------ the network
\* The nodes of the grid, each a process of robust_node.py, and the datagrams
\* between them. A node's tick pass is two steps, the spread (lines 193-211)
\* and the decay (lines 213-221), with arrivals before, between and after; a
\* pass over an empty store changes nothing, so where an idle tick thread
\* stands is chosen when the node accepts an item. Datagrams to one socket
\* on the loopback interface are received in the order they were sent.

\* Largest energy the controller injects with.
NetEnergy == 2

nodeVars == <<alive, information, generation, tickVars, listenVars, apcVars,
              fresh, dieHandled, life, seed, stopVars, tried, recvVars, startVars,
              wireVars>>

\* NetworkController.inject_information: the datagram for the first info_id.
InjectMessage(e) == Msg("information", "controller", IdNames[1], "x", e, 0)

\* The message node n's _spread_information builds for one item.
NetSpreadMessage(n, item) ==
    [SpreadMessage(item) EXCEPT !.sender_id = NodeName(n[1], n[2])]

\* The datagrams of one _spread_information of node n on the store st: items
\* outer, neighbors inner.
SpreadDatagrams(n, st) ==
    LET Live(it) == it.energy > 0
        live == SelectSeq(st, Live)
        nbs == NeighborsOf(n)
    IN  [k \in 1..(Len(live) * Len(nbs)) |->
            [to |-> nbs[((k - 1) % Len(nbs)) + 1].port,
             msg |-> NetSpreadMessage(n, live[((k - 1) \div Len(nbs)) + 1])]]

\* The messages among the datagrams ds that go to port p, in order.
MessagesTo(ds, p) ==
    LET ToP(d) == d.to = p
        sel == SelectSeq(ds, ToP)
    IN  [k \in 1..Len(sel) |-> sel[k].msg]

\* An alive node's tick thread spreads (lines 187-188): the datagrams of the
\* spread are queued at their destinations. A dead node's handler returns at
\* line 160 whatever the datagram is, so what goes to a dead node is not kept.
NetSpread(n) ==
    /\ nalive[n]
    /\ nphase[n] = "sleep"
    /\ nstore[n] # <<>>
    /\ inbox' = [m \in Nodes |->
                    IF nalive[m]
                    THEN inbox[m] \o MessagesTo(SpreadDatagrams(n, nstore[n]), PortOf(m))
                    ELSE inbox[m]]
    /\ nphase' = [nphase EXCEPT ![n] = "decay"]
    /\ UNCHANGED <<nodeVars, nalive, nstore, origin, injected, held>>

\* The decay of the same pass (line 189).
NetDecay(n) ==
    /\ nphase[n] = "decay"
    /\ nstore' = [nstore EXCEPT ![n] = decay_information(@)]
    /\ nphase' = [nphase EXCEPT ![n] = "sleep"]
    /\ UNCHANGED <<nodeVars, nalive, inbox, origin, injected, held>>

\* Node n's listen thread handles datagram i of its queue; the history of
\* the nodes that accepted is kept when track is set.
NetHandle(n, i, track) ==
    LET after == handle_information(nalive[n], nstore[n], inbox[n][i])
    IN  /\ nstore' = [nstore EXCEPT ![n] = after]
        /\ inbox' = [inbox EXCEPT ![n] =
                        SubSeq(@, 1, i - 1) \o SubSeq(@, i + 1, Len(@))]
        /\ IF nstore[n] = <<>> /\ after # <<>>
           THEN \E ph \in {"sleep", "decay"} : nphase' = [nphase EXCEPT ![n] = ph]
           ELSE UNCHANGED nphase
        /\ held' = IF track /\ after # nstore[n] THEN held \cup {n} ELSE held
        /\ UNCHANGED <<nodeVars, nalive, origin, injected>>

\* The datagrams are received in order.
NetDeliver(n) ==
    /\ inbox[n] # <<>>
    /\ NetHandle(n, 1, TRUE)

\* A network that reorders: any queued datagram is the next one received.
NetDeliverAny(n) ==
    \E i \in 1..Len(inbox[n]) : NetHandle(n, i, FALSE)

\* A datagram is lost.
NetLose(n) ==
    /\ \E i \in 1..Len(inbox[n]) :
          inbox' = [inbox EXCEPT ![n] = SubSeq(@, 1, i - 1) \o SubSeq(@, i + 1, Len(@))]
    /\ UNCHANGED <<nodeVars, nalive, nstore, nphase, origin, injected, held>>

\* The network after the controller sent one injection, with energy e to
\* node o, the nodes of dead having handled Die before.
NetInjected(o, e, dead) ==
    /\ nalive = [n \in Nodes |-> n \notin dead]
    /\ nstore = [n \in Nodes |-> <<>>]
    /\ nphase = [n \in Nodes |-> "sleep"]
    /\ inbox = [n \in Nodes |-> IF n = o THEN <<InjectMessage(e)>> ELSE <<>>]
    /\ origin = o
    /\ injected = e
    /\ held = {}

InitNet == NodeStart(<<>>) /\ \E o \in Nodes, e \in 1..NetEnergy : NetInjected(o, e, {})

\* test_robust_network.py, test 3: node_0_0 and node_2_0 are killed.
Killed == {<<0, 0>>, <<2, 0>>}

\* Largest energy of the injection into a network with killed nodes.
KillEnergy == 4

\* Sets of alive nodes around the injection point node_1_2 of test 4: a line
\* to node_1_0, and the two paths to it that avoid the center.
AliveLine == {<<1, 2>>, <<1, 1>>, <<1, 0>>}
AliveRing == {<<1, 2>>, <<0, 1>>, <<2, 1>>, <<1, 0>>}

\* After the kills, the tester injects at node_1_2: into the grid of the test
\* with a small energy, and into grids where more nodes were killed.
InitKill ==
    /\ NodeStart(<<>>)
    /\ \/ \E e \in 1..NetEnergy : NetInjected(<<1, 2>>, e, Killed)
       \/ \E e \in 1..KillEnergy : NetInjected(<<1, 2>>, e, Nodes \ AliveLine)
       \/ \E e \in 1..(KillEnergy - 1) : NetInjected(<<1, 2>>, e, Nodes \ AliveRing)

NetTick == \E n \in Nodes : NetSpread(n) \/ NetDecay(n)

\* Any loss, delay and reordering.
NextNA ==
    \/ NetTick
    \/ \E n \in Nodes : NetDeliverAny(n)
    \/ \E n \in Nodes : NetLose(n)

\* No loss, in order.
NextNet ==
    \/ NetTick
    \/ \E n \in Nodes : NetDeliver(n)

\* Some thread has a step to take: a datagram to receive, a decay to run, or
\* a spread to start (the guards of NetDeliver, NetDecay and NetSpread).
NetBusy ==
    \E n \in Nodes :
        \/ inbox[n] # <<>>
        \/ nphase[n] = "decay"
        \/ nalive[n] /\ nphase[n] = "sleep" /\ nstore[n] # <<>>

\* Largest energy of the injection into a network whose nodes are killed
\* while the item spreads.
DieEnergy == 3

\* Node n handles a Die datagram of the controller (lines 180-182).
NetDie(n) ==
    /\ nalive[n]
    /\ nalive' = [nalive EXCEPT ![n] = FALSE]
    /\ nstore' = [nstore EXCEPT ![n] = <<>>]
    /\ UNCHANGED <<nodeVars, nphase, inbox, origin, injected, held>>

\* The tester injects at node_1_2 of the line and of the ring, their nodes
\* alive.
InitDie ==
    /\ NodeStart(<<>>)
    /\ \/ \E e \in 1..DieEnergy : NetInjected(<<1, 2>>, e, Nodes \ AliveLine)
       \/ \E e \in 1..DieEnergy : NetInjected(<<1, 2>>, e, Nodes \ AliveRing)

\* No loss, in order, and the controller kills nodes at any time.
NextDie ==
    \/ NextNet
    \/ \E n \in Nodes : NetDie(n)

SpecDie == InitDie /\ [][NextDie]_vars
SpecNA == InitNet /\ [][NextNA]_vars
SpecNet == InitNet /\ [][NextNet]_vars
SpecKill == InitKill /\ [][NextNet]_vars

\* ================================================================ claims

\* The item the specification says an accepted message m leaves in the store.
C1_Item(m) ==
    [info_id |-> m.info_id, content |-> m.content, energy |-> m.energy - 1,
     received_from |-> m.sender_id, hops |-> m.hops + 1]

\* The handler's own step sends nothing.
C1_NothingSent ==
    [][(lpc = "info_store" /\ lpc' = "idle") => (sent' = sent /\ pong' = pong)]_vars

\* C1 as stated: handling an Information message stores a new item if and
\* only if the node is alive, the info_id is not a key of the store and the
\* energy is > 0; the new item has energy - 1, hops + 1 and the sender as
\* provenance; otherwise the store is unchanged; nothing is sent.
C1_AsStated ==
    /\ [](\A m \in InformationMsgs :
            LET after == handle_information(alive, information, m)
            IN  IF alive /\ ~Has(information, m.info_id) /\ m.energy > 0
                THEN after = Append(information, C1_Item(m))
                ELSE after = information)
    /\ C1_NothingSent

\* C1 amended: the same, the message moreover carrying a non-empty info_id.
C1_HandleInformation ==
    /\ [](\A m \in InformationMsgs :
            LET after == handle_information(alive, information, m)
            IN  IF alive /\ m.info_id # NoId /\ ~Has(information, m.info_id)
                   /\ m.energy > 0
                THEN after = Append(information, C1_Item(m))
                ELSE after = information)
    /\ C1_NothingSent

\* An item the handler accepted is held, next to where a further message
\* would be refused for each of the three reasons.
C1_Witness ==
    /\ lpc = "idle"
    /\ alive
    /\ \E k \in 1..Len(information) : information[k].received_from \in Senders

\* C2: every item of the store has energy > 0, and so has every item a Pong
\* reports.
C2_EnergyPositive ==
    /\ \A k \in 1..Len(information) : information[k].energy > 0
    /\ lpc = "ping_sent" =>
          \A k \in 1..Len(pong.information) : pong.information[k].energy > 0

\* C3: a decay pass raises no error and decrements each key it started with
\* exactly once, whatever the listen thread does meanwhile.
C3_DecayPass ==
    /\ tpc # "crashed"
    /\ tpc = "gen" => ddone = dkeys

\* C4: an item injected with energy E >= 1 (by inject_information or by an
\* Information datagram of the controller) and not injected again is held
\* until E tick passes have consumed its energy and not after, never with
\* energy <= 0, also when a neighbor goes on sending it.
C4_Lifetime ==
    \A id \in Ids :
        life[id].E > 0 =>
            /\ Has(information, id) => Get(information, id).energy > 0
            /\ tpc = "sleep" => (Has(information, id) <=> life[id].n < life[id].E)

\* C5: the decay never decrements an accepted item of an alive node before
\* the item went to every neighbor with the energy and hops it was stored with.
C5_SpreadBeforeDecay ==
    [][(alive /\ tpc = "decay_dec" /\ tpc' = "decay_test") => dkeys[di] \notin fresh]_vars

\* C6: once Die is handled, and until revive, no Information is sent and no
\* energy is decremented.
C6_DeadIsSilent ==
    [][(dieHandled /\ dieHandled') =>
          /\ Len(sent') <= Len(sent)
          /\ ~(tpc = "decay_dec" /\ tpc' = "decay_test")]_vars

\* C7: a dead node holds no item (the states in the middle of _handle_die or
\* simulate_failure, between their two statements, are not counted).
C7_DeadIsEmpty ==
    (~alive /\ lpc # "die_clear" /\ apc # "fail_clear") => information = <<>>

\* C8: every Ping is answered, by one Pong to the source, whose alive field is
\* the alive flag.
C8_PingAnswered ==
    /\ lpc # "ping_failed"
    /\ lpc = "ping_sent" => (pong.to \in PingAddrs /\ pong.alive = alive)

\* C9: an Information message for a held info_id changes nothing, and one
\* delivered twice leaves what one delivery leaves.
C9_Idempotent ==
    \A m \in InformationMsgs :
        LET once == handle_information(alive, information, m)
        IN  /\ Has(information, m.info_id) => once = information
            /\ handle_information(alive, once, m) = once

\* An alive node holds an item for which a message with other values can come.
C9_Witness ==
    /\ alive
    /\ lpc = "idle"
    /\ \E m \in InformationMsgs :
          /\ Has(information, m.info_id)
          /\ m.energy > 0
          /\ C1_Item(m) # Get(information, m.info_id)

\* The datagram the specification says goes to the neighbor at port p for item.
C10_Datagram(item, p) ==
    [to |-> p,
     msg |-> [type |-> "information", sender_id |-> node_id,
              info_id |-> item.info_id, content |-> item.content,
              energy |-> item.energy, hops |-> item.hops]]

C10_Ports == {neighbors[n].port : n \in 1..Len(neighbors)}

C10_Count(d) == Cardinality({i \in 1..Len(sent) : sent[i] = d})

\* C10: a spread sends, for every item it started with that has energy > 0
\* and for every neighbor, one Information message with the item's id,
\* content, energy and hops and the node's id, and nothing else.
C10_SpreadExact ==
    /\ \A i \in 1..Len(sent) :
          \E k \in 1..Len(snap), p \in C10_Ports :
              snap[k].energy > 0 /\ sent[i] = C10_Datagram(snap[k], p)
    /\ \A k \in 1..Len(snap), p \in C10_Ports :
          snap[k].energy > 0 =>
              /\ C10_Count(C10_Datagram(snap[k], p)) <= 1
              /\ tpc = "decay_snap" => C10_Count(C10_Datagram(snap[k], p)) = 1

\* A spread is over that sent one item and skipped another.
C10_Witness ==
    /\ tpc = "decay_snap"
    /\ Len(snap) = 2
    /\ Len(sent) = Len(neighbors)

\* The store after n uninterrupted decay passes on st.
RECURSIVE C11_Passes(_, _)
C11_Passes(st, n) == IF n = 0 THEN st ELSE C11_Passes(decay_information(st), n - 1)

C11_DecayStates == {"decay_dec", "decay_test", "decay_del"}

\* C11: the decay of a tick pass lowers every held item's energy by exactly 1,
\* removes exactly the items then at energy <= 0, leaves the other fields of
\* the survivors alone and adds no item; it runs after the pass's spread.
C11_Decay ==
    /\ [](LET after == decay_information(information)
          IN  /\ \A k \in 1..Len(information) :
                    LET it == information[k]
                    IN  IF it.energy - 1 <= 0
                        THEN ~Has(after, it.info_id)
                        ELSE /\ Has(after, it.info_id)
                             /\ Get(after, it.info_id) = [it EXCEPT !.energy = @ - 1]
              /\ \A k \in 1..Len(after) : Has(information, after[k].info_id)
              /\ tpc = "gen" => information = C11_Passes(seed, generation + 1)
              /\ tpc = "decay_snap" => information = C11_Passes(seed, generation))
    /\ [][/\ (tpc' = "decay_snap" /\ tpc # "decay_snap") => tpc \in {"spread_snap", "spread"}
          /\ (tpc' \in C11_DecayStates /\ tpc \notin C11_DecayStates) => tpc = "decay_snap"
          /\ (tpc' = "gen" /\ tpc # "gen") => tpc \in C11_DecayStates \cup {"decay_snap"}]_vars

\* A decay pass is over that removed one of two items and kept the other.
C11_Witness ==
    /\ tpc = "gen"
    /\ generation = 0
    /\ Len(seed) = 2
    /\ Len(information) = 1
    /\ information[1].energy = seed[IndexOf(seed, information[1].info_id)].energy - 1

\* The weight of a stored item of energy e whose node is about to spread
\* it: more than the item after the spread plus a message to each of at most
\* 8 neighbors.
RECURSIVE C12_Sleeping(_)
C12_Sleeping(e) == IF e < 0 THEN 0 ELSE 9 * C12_Sleeping(e - 1) + 10

\* The weight of a stored item of energy e that is about to decay, and of a
\* message of energy e: more than the item of energy e - 1 that follows.
C12_Pending(e) == C12_Sleeping(e - 1) + 1

RECURSIVE C12_QueueWeight(_)
C12_QueueWeight(q) ==
    IF q = <<>> THEN 0 ELSE C12_Pending(Head(q).energy) + C12_QueueWeight(Tail(q))

RECURSIVE C12_StoreWeight(_, _)
C12_StoreWeight(st, ph) ==
    IF st = <<>>
    THEN 0
    ELSE (IF ph = "sleep" THEN C12_Sleeping(Head(st).energy)
                          ELSE C12_Pending(Head(st).energy))
         + C12_StoreWeight(Tail(st), ph)

RECURSIVE C12_Sum(_, _, _, _)
C12_Sum(ns, st, ph, ib) ==
    IF ns = {}
    THEN 0
    ELSE LET n == CHOOSE x \in ns : TRUE
         IN  C12_StoreWeight(st[n], ph[n]) + C12_QueueWeight(ib[n])
             + C12_Sum(ns \ {n}, st, ph, ib)

\* What is left to happen in the network, as a natural number.
C12_Measure == C12_Sum(Nodes, nstore, nphase, inbox)

\* C12: after the injection every item vanishes: every step of the network
\* lowers a natural-valued measure, so only finitely many steps are taken,
\* and when no thread has a step left every store is empty, for good; and no
\* node ever holds more items than info_ids were injected (one).
C12_Vanishes ==
    /\ [][C12_Sum(Nodes, nstore', nphase', inbox') < C12_Measure]_vars
    /\ [](C12_Measure >= 0)
    /\ [](NetBusy \/ (\A n \in Nodes : nstore[n] = <<>> /\ inbox[n] = <<>>))
    /\ [](\A n \in Nodes : Len(nstore[n]) <= 1)

\* The item has spread: a node other than the origin holds it.
C12_Witness ==
    \E n \in Nodes : n # origin /\ nstore[n] # <<>>

\* C13: an item injected once with energy E is never held by a node at grid
\* distance greater than E from the origin, whatever is lost, delayed or
\* reordered.
C13_ReachBound ==
    \A n \in Nodes : Dist(origin, n) > injected => nstore[n] = <<>>

\* The origin accepted an injection of energy 1, and the grid has nodes two
\* hops away from it.
C13_Witness ==
    /\ injected = 1
    /\ nstore[origin] # <<>>
    /\ \E n \in Nodes : Dist(origin, n) > injected

\* C14: with all nodes alive and no datagram lost, an item injected with
\* energy E comes to be held by every node within grid distance E of the
\* origin: once no thread has a step left, each of them has held it.
C14_ReachesAll ==
    (~NetBusy) => \A n \in Nodes : Dist(origin, n) <= injected => n \in held

\* The alive nodes that k hops through alive nodes reach from node o.
RECURSIVE C15_AliveWithin(_, _)
C15_AliveWithin(o, k) ==
    IF k = 0 THEN {o}
    ELSE LET near == C15_AliveWithin(o, k - 1)
         IN  near \cup {n \in Nodes : nalive[n] /\ \E m \in near : Dist(m, n) = 1}

\* The hops an injected energy is sure to cover: the injection costs one
\* unit, and each hop at most two (a decay before the spread, the acceptance).
C15_SureHops == IF injected = 0 THEN 0 ELSE (injected - 1) \div 2

C16_TickKeepsRunning == ~(tpc = "crashed" /\ alive /\ information # <<>>)

\* C17: the alive flag goes from false to true only by revive, and the step
\* that revives finds the store empty and leaves the store and the generation
\* as they are.
C17_ReviveOnly ==
    [][(~alive /\ alive') =>
          /\ apc = "idle" /\ calls' = calls + 1 /\ lpc' = lpc /\ tpc' = tpc
          /\ information = <<>>
          /\ information' = information
          /\ generation' = generation]_vars

\* C18: the socket is closed only after both loops have seen the stop signal
\* and returned.
C18_ClosedAfterExit == (~sockopen) => (tpc = "done" /\ lpc = "done")

\* C20: a send that fails is passed over: the thread does not end, the store
\* and the generation are as they were, no (item, neighbor) pair is tried
\* twice in a pass, every pair is tried by the end of the spread, and the decay of
\* the pass is the decay of a pass without failures.
C20_FailureSwallowed ==
    /\ [](tpc # "crashed")
    /\ [](\A j, k \in 1..Len(tried) : j # k => tried[j] # tried[k])
    /\ [](tpc = "decay_snap" =>
            \A k \in 1..Len(snap), p \in C10_Ports :
                snap[k].energy > 0 =>
                    \E j \in 1..Len(tried) : tried[j] = <<snap[k].info_id, p>>)
    /\ [](tpc = "gen" => information = C11_Passes(seed, generation + 1))
    /\ [][Len(tried') > Len(tried) =>
            /\ Len(tried') = Len(tried) + 1
            /\ Len(sent') \in {Len(sent), Len(sent) + 1}
            /\ information' = information
            /\ generation' = generation]_vars

\* The first send of a spread of two items failed, and the spread went on
\* to the other neighbors and to the other item.
C20_Witness ==
    /\ tpc = "decay_snap"
    /\ Len(seed) = 2
    /\ Len(tried) = 2 * Len(neighbors)
    /\ Len(sent) = Len(tried) - 1
    /\ sent[1].to # neighbors[1].port

\* The datagrams that are well-formed messages: a JSON object of the fields
\* of Message, of a known type, with a dict as data (for Information, one
\* with info_id and content) and a number as energy.
C19_WellFormed(raw) ==
    /\ raw.json = "object"
    /\ raw.keys = "fields"
    /\ raw.type \in {"ping", "information", "heartbeat", "die"}
    /\ raw.data.dict
    /\ raw.energy.num
    /\ raw.type = "information" => raw.data.info_id # NoId /\ raw.data.content # NoContent

\* C19: a malformed datagram is dropped: the alive flag, the generation and
\* the store are as before, no reply is sent, and the listen thread is back
\* at recvfrom.
C19_MalformedDropped ==
    [][(dgram' # dgram /\ ~C19_WellFormed(dgram')) =>
          /\ alive' = alive
          /\ information' = information
          /\ generation' = generation
          /\ ~reply'
          /\ lpc' = "idle"]_vars

\* The configuration is valid: the coordinates are in the grid and the port
\* is the address of the cell.
C21_Valid(c) ==
    /\ 0 <= c.x /\ c.x < c.size
    /\ 0 <= c.y /\ c.y < c.size
    /\ c.port = c.base + c.y * c.size + c.x

\* C21: a node with an invalid configuration never has a bound socket and
\* never runs its loops.
C21_Rejected == (sockopen \/ stage = "started") => C21_Valid(conf)

\* Where the tick thread is inside a pass that found the node alive.
C22_InPass ==
    {"spread_snap", "spread", "decay_snap", "decay_dec", "decay_test", "decay_del", "gen"}

\* C22: the generation starts at 0, changes only by 1 upwards and only at the
\* end of a tick pass, and every tick pass that found the node alive ends
\* with that increment.
C22_Generation ==
    /\ generation = 0
    /\ [][/\ generation' \in {generation, generation + 1}
          /\ generation' # generation => tpc = "gen"
          /\ (tpc \in C22_InPass /\ tpc' \notin C22_InPass) =>
                generation' = generation + 1]_vars

\* C23: handling a Heartbeat changes nothing and sends nothing, whatever the
\* state: in every state every heartbeat that decodes would be handled so,
\* and every step that receives one leaves the flag, the generation, the
\* store and the neighbors alone and sends neither a reply nor a spread.
C23_HeartbeatNoOp ==
    /\ [](\A raw \in Datagrams :
            (Decodes(raw) /\ raw.type = "heartbeat") =>
                listen_once(alive, information, raw) = Dropped(alive, information))
    /\ [][(dgram' # dgram /\ Decodes(dgram') /\ dgram'.type = "heartbeat") =>
            /\ alive' = alive
            /\ information' = information
            /\ generation' = generation
            /\ nbrs' = nbrs
            /\ sent' = sent
            /\ ~reply'
            /\ lpc' = "idle"]_vars

\* A heartbeat was handled by an alive node that holds an item.
C23_Witness ==
    /\ Decodes(dgram)
    /\ dgram.type = "heartbeat"
    /\ alive
    /\ information # <<>>

\* The node's position is a cell of its grid.
C24_InBounds(c) == 0 <= c.x /\ c.x < c.size /\ 0 <= c.y /\ c.y < c.size

\* The cells of the grid of configuration c at Chebyshev distance 1 of its
\* position.
C24_Cells(c) ==
    {p \in (0..(c.size - 1)) \X (0..(c.size - 1)) : Dist(p, <<c.x, c.y>>) = 1}

\* The neighbors are discovered.
C24_Discovered == stage \in {"discovered", "started"}

\* C24: for every grid size and every position in the grid, the neighbors
\* discovered are the cells of the grid at Chebyshev distance 1, each once
\* and with the address base + y' * size + x': not the node's own cell, no
\* cell outside the grid, at most 8.
C24_ExactNeighbors ==
    (C24_Discovered /\ C24_InBounds(conf)) =>
        /\ {<<nbrs[k].grid_x, nbrs[k].grid_y>> : k \in 1..Len(nbrs)} = C24_Cells(conf)
        /\ Len(nbrs) = Cardinality(C24_Cells(conf))
        /\ Len(nbrs) <= 8
        /\ \A k \in 1..Len(nbrs) :
              /\ nbrs[k].port = conf.base + nbrs[k].grid_y * conf.size + nbrs[k].grid_x
              /\ <<nbrs[k].grid_x, nbrs[k].grid_y>> # <<conf.x, conf.y>>

\* The cells among the neighbor records ns.
C25_CellsOf(ns) == {<<ns[k].grid_x, ns[k].grid_y>> : k \in 1..Len(ns)}

\* The neighbors the node of cell b computes in the grid of configuration c,
\* named after its cell.
C25_ComputedBy(b, c) == discover_neighbors(b[1], b[2], c.size, c.base, NodeName(b[1], b[2]))

\* C25: the neighbor relation is symmetric: a cell B of the grid is among the
\* neighbors the node computed if and only if the node's cell is among the
\* neighbors B computes.
C25_Symmetric ==
    (C24_Discovered /\ C24_InBounds(conf)) =>
        \A b \in (0..(conf.size - 1)) \X (0..(conf.size - 1)) :
            (b \in C25_CellsOf(nbrs)) <=> (<<conf.x, conf.y>> \in C25_CellsOf(C25_ComputedBy(b, conf)))

\* The coordinate v lies on the border of a grid of the given size.
C26_OnBorder(v, size) == v = 0 \/ v = size - 1

\* The neighbors of a corner, of an edge cell that is no corner, and of an
\* interior cell.
C26_Count(c) ==
    IF C26_OnBorder(c.x, c.size) /\ C26_OnBorder(c.y, c.size) THEN 3
    ELSE IF C26_OnBorder(c.x, c.size) \/ C26_OnBorder(c.y, c.size) THEN 5
    ELSE 8

\* C26: in a grid of size 3 or more a corner has exactly 3 neighbors, an
\* edge cell that is no corner 5 and an interior cell 8, and len(neighbors),
\* which a pong reports, is that number.
C26_NeighborCount ==
    (C24_Discovered /\ C24_InBounds(conf) /\ conf.size >= 3) =>
        /\ Len(nbrs) = C26_Count(conf)
        /\ Cardinality(C25_CellsOf(nbrs)) = C26_Count(conf)

\* The node was started by the launcher or the test harness.
C27_Launched ==
    \E i \in nodes_info(conf.size, conf.base) : conf = LaunchedConf(i, conf.size, conf.base)

\* C27: the nodes of a launched grid have distinct addresses, and the
\* address a launched node computes for a neighbor is the address of exactly
\* one launched node: the one at the neighbor's cell, of the neighbor's name.
C27_Addressing ==
    (C24_Discovered /\ C27_Launched) =>
        LET started == nodes_info(conf.size, conf.base)
        IN  /\ \A i, j \in started : i.port = j.port => i = j
            /\ \A i, j \in started :
                  (i.grid_x = j.grid_x /\ i.grid_y = j.grid_y) => i = j
            /\ \A k \in 1..Len(nbrs) :
                  {i \in started : i.port = nbrs[k].port} = {nbrs[k]}

\* An interior node of the largest launched grid has discovered its eight
\* neighbors.
C27_Witness ==
    /\ C24_Discovered
    /\ C27_Launched
    /\ conf.size = MaxGrid
    /\ Len(nbrs) = 8

\* C28: a message that is encoded, sent and decoded arrives equal in type,
\* sender_id, data, energy and hops, and a datagram without energy or hops
\* decodes with 0 for what it lacks.
C28_RoundTrip ==
    wpc = "received" =>
        /\ wire.fields = MessageFields => (decoded.ok /\ decoded.msg = wmsg)
        /\ (decoded.ok /\ "energy" \notin wire.fields) => decoded.msg.energy = 0
        /\ (decoded.ok /\ "hops" \notin wire.fields) => decoded.msg.hops = 0

\* C29: a pong that is sent is a snapshot of one state of the store: its
\* information_count is the number of entries of its information map, and a
\* pong with alive = false has the count 0 and an empty map.
C29_ConsistentPong ==
    lpc = "ping_sent" =>
        /\ pong.information_count = Len(pong.information)
        /\ (~pong.alive) => (pong.information_count = 0 /\ pong.information = <<>>)

\* The copies node n holds and the messages queued for it stay within the
\* energy of the injection.
C30_Within(n) ==
    /\ \A i \in 1..Len(nstore[n]) :
          /\ nstore[n][i].energy + nstore[n][i].hops <= injected
          /\ nstore[n][i].hops >= 1
    /\ \A i \in 1..Len(inbox[n]) :
          inbox[n][i].energy + inbox[n][i].hops <= injected

\* A copy of node n after a step is a copy it held, with no more energy, or
\* was accepted from a queued message that had more energy; a message queued
\* by the step carries the energy and hops of a copy of its sender.
C30_FromSource(n) ==
    /\ \A i \in 1..Len(nstore'[n]) :
          \/ \E j \in 1..Len(nstore[n]) :
                /\ nstore[n][j].info_id = nstore'[n][i].info_id
                /\ nstore'[n][i].energy <= nstore[n][j].energy
                /\ nstore'[n][i].hops = nstore[n][j].hops
          \/ \E j \in 1..Len(inbox[n]) :
                /\ inbox[n][j].info_id = nstore'[n][i].info_id
                /\ nstore'[n][i].energy < inbox[n][j].energy
                /\ nstore'[n][i].hops = inbox[n][j].hops + 1
    /\ \A i \in (Len(inbox[n]) + 1)..Len(inbox'[n]) :
          \E m \in Nodes : \E j \in 1..Len(nstore[m]) :
              /\ inbox'[n][i].sender_id = NodeName(m[1], m[2])
              /\ inbox'[n][i].info_id = nstore[m][j].info_id
              /\ inbox'[n][i].energy = nstore[m][j].energy
              /\ inbox'[n][i].hops = nstore[m][j].hops

\* C30: energy is never created in transit: every copy held of an item
\* injected once with energy E and hops 0 has energy + hops <= E and
\* hops >= 1, every message in flight has energy + hops <= E, and no spread,
\* decay, death or re-acceptance gives a copy more energy than its source had.
C30_NoEnergyCreated ==
    /\ [](\A n \in Nodes : C30_Within(n))
    /\ [][\A n \in Nodes : C30_FromSource(n)]_vars

\* The origin lost its copy to the decay and accepted the item again from
\* its neighbor, and a node of the line was killed.
C30_Witness ==
    /\ \E i \in 1..Len(nstore[origin]) : nstore[origin][i].hops = 3
    /\ \E n \in AliveLine : ~nalive[n]
====
